---- MODULE Spec2Model ----
(***************************************************************************)
(* Conway's Game of Life on a toroidal board (small_life.ipynb):           *)
(* life_pattern (step, apply_symmetry), rectangle_symmetries,              *)
(* detect_cycle (Floyd) and the exhaustive search find_oscillators.        *)
(* A life_pattern is modelled by its _config, a tuple of rows of 0/1;      *)
(* _height and _width are Len(config) and Len(config[1]) as in __init__.   *)
(* Python indices are 0-based, TLA+ tuples 1-based: cell (i,j) of the code *)
(* is config[i+1][j+1].                                                    *)
(***************************************************************************)
EXTENDS Integers, Sequences, FiniteSets, TLC

VARIABLES
  pattern,      \* the life_pattern operated on / the argument of detect_cycle
  prev,         \* the pattern the last step / apply_symmetry was called on
  op,           \* the last call: <<"new">>, <<"step">>, <<"symmetry", x>>
  pc,           \* control point of detect_cycle / find_oscillators
  tortoise, hare, first_rep, period,          \* locals of detect_cycle
  n, k, indices, visited, oscillators,        \* locals of find_oscillators
  examined,     \* number of patterns find_oscillators handed to detect_cycle
  generated     \* history: the configurations the loops of find_oscillators
                \* built so far, in order, each with whether it was handed
                \* to detect_cycle

vars == <<pattern, prev, op, pc, tortoise, hare, first_rep, period,
          n, k, indices, visited, oscillators, examined, generated>>

\* ---------------------------------------------------------------- bounds
\* boards of the Step / symmetry / cycle specifications: 1..MaxH x 1..MaxW
MaxH == 3
MaxW == 4
\* widths n of the search specification: 0..MaxN
MaxN == 4
\* loop iterations of find_oscillators taken by one RunLoop step
Batch == 32
\* loop iterations taken by one step of the specification of the two orders
OrdersBatch == 64
\* widths n of the search taken one pass per step: 0..MaxPassN
MaxPassN == 3

\* the element of a one-element set: used to evaluate a value once
Only(S) == CHOOSE x \in S : TRUE

\* list(...): a comprehension materialised as a tuple
list(f) == << >> \o f

\* ------------------------------------------------------- life_pattern
\* life_pattern.directions, in the order the inner loop of step visits them
directions ==
  << <<1, 0>>, <<1, 1>>, <<0, 1>>, <<-1, 1>>,
     <<-1, 0>>, <<-1, -1>>, <<0, -1>>, <<1, -1>> >>

height(config) == Len(config)

width(config) == Len(config[1])

\* life_pattern.__eq__ / __hash__: structural equality of _config

\* StepRow with the survival test dropped: s == 3 or s == 2
StepRowRule(config, H, W, i) ==
  LET rd == config[((i + 1) % H) + 1]
      ru == config[((i - 1) % H) + 1]
      rc == config[i + 1]
  IN list([j1 \in 1..W |->
       LET rt == (j1 % W) + 1
           lf == ((j1 - 2) % W) + 1
           s == rd[j1] + rd[rt] + rc[rt] + ru[rt]
              + ru[j1] + ru[lf] + rc[lf] + rd[lf]
       IN IF s = 3 \/ s = 2 THEN 1 ELSE 0])

\* StepRow with the last direction (1,-1) mistyped as (1,1)
StepRowTypo(config, H, W, i) ==
  LET rd == config[((i + 1) % H) + 1]
      ru == config[((i - 1) % H) + 1]
      rc == config[i + 1]
  IN list([j1 \in 1..W |->
       LET rt == (j1 % W) + 1
           lf == ((j1 - 2) % W) + 1
           s == rd[j1] + rd[rt] + rc[rt] + ru[rt]
              + ru[j1] + ru[lf] + rc[lf] + rd[rt]
       IN IF s = 3 \/ (rc[j1] = 1 /\ s = 2) THEN 1 ELSE 0])

\* row i (0-based) of new_config in step.  rd, ru, rc are the rows
\* (i+1) % H, (i-1) % H and i of _config; rt, lf are the columns (j+1) % W
\* and (j-1) % W (1-based here, j1 = j + 1).  s is the loop over
\* directions unrolled: one term per direction, in the order of directions.
StepRow(config, H, W, i) ==
  LET rd == config[((i + 1) % H) + 1]
      ru == config[((i - 1) % H) + 1]
      rc == config[i + 1]
  IN list([j1 \in 1..W |->
       LET rt == (j1 % W) + 1
           lf == ((j1 - 2) % W) + 1
           s == rd[j1] + rd[rt] + rc[rt] + ru[rt]
              + ru[j1] + ru[lf] + rc[lf] + rd[lf]
       IN IF s = 3 \/ (rc[j1] = 1 /\ s = 2) THEN 1 ELSE 0])

\* new_config after the loops over i and j of step
new_config(config) ==
  LET H == height(config)
      W == width(config)
  IN list([i1 \in 1..H |-> StepRow(config, H, W, i1 - 1)])

\* step: the pattern of new_config (self is evaluated once)
Step(config) == Only({new_config(self) : self \in {config}})

\* ------------------------------------------------ rectangle_symmetries
Reversed(seq) == list([x \in 1..Len(seq) |-> seq[Len(seq) + 1 - x]])

ReversedRows(rect) == list([x \in 1..Len(rect) |-> Reversed(rect[x])])

rectangle_symmetries(m, w, skip_id) ==
  LET start_rect ==
        list([i1 \in 1..m |-> list([j1 \in 1..w |-> <<i1 - 1, j1 - 1>>])])
      transposed ==
        list([i1 \in 1..m |-> list([j1 \in 1..w |-> <<j1 - 1, i1 - 1>>])])
  IN (IF skip_id THEN << >> ELSE << start_rect >>)
     \o << ReversedRows(start_rect),
           Reversed(start_rect),
           ReversedRows(Reversed(start_rect)) >>
     \o (IF m # w THEN << >>
         ELSE << transposed,
                 ReversedRows(transposed),
                 Reversed(transposed),
                 ReversedRows(Reversed(transposed)) >>)

apply_symmetry(config, symmetry) ==
  list([i1 \in 1..Len(symmetry) |->
     list([j1 \in 1..Len(symmetry[i1]) |->
        config[symmetry[i1][j1][1] + 1][symmetry[i1][j1][2] + 1]])])

\* ------------------------------------------------------- detect_cycle
\* Phase 1 from tortoise = t, hare = h: the hare when the loop exits
RECURSIVE Phase1(_, _)
Phase1(t, h) ==
  Only({IF a = b THEN b ELSE Phase1(Step(a), Step(Step(b))) :
          a \in {t}, b \in {h}})

\* Phase 2 from tortoise = t, hare = h, first_rep = count:
\* <<tortoise, first_rep>> when the loop exits
RECURSIVE Phase2(_, _, _)
Phase2(t, h, count) ==
  Only({IF a = b THEN <<a, count>> ELSE Phase2(Step(a), Step(b), count + 1) :
          a \in {t}, b \in {h}})

\* Phase 3 from tortoise = t, hare = h, period = count:
\* period when the loop exits
RECURSIVE Phase3(_, _, _)
Phase3(t, h, count) ==
  Only({IF a = b THEN count ELSE Phase3(a, Step(b), count + 1) :
          a \in {t}, b \in {h}})

\* detect_cycle(pattern) = <<first_rep, period>>
detect_cycle(config) ==
  Only({<<p2[2], Phase3(p2[1], Step(p2[1]), 1)>> :
          p2 \in {Phase2(config, Phase1(Step(config), Step(Step(config))), 0)}})

\* ---------------------------------------------------- find_oscillators
\* the board height the search fixes: product(range(3), ...), range(3),
\* rectangle_symmetries(3, n)
Rows == 3

\* pairs = list(product(range(3), range(n))), row-major
pairs(w) == list([x \in 1..(Rows * w) |-> <<(x - 1) \div w, (x - 1) % w>>])

\* itertools.combinations(pairs, k) as positions (0-based) into pairs:
\* the first combination is (0, 1, ..., k-1)
FirstCombination(size) == list([x \in 1..size |-> x - 1])

\* the rightmost position x <= from (1-based) with idx[x] != x-1 + N-k,
\* 0 if there is none (the combinations of this size are exhausted)
RECURSIVE Advanceable(_, _, _)
Advanceable(idx, N, from) ==
  IF from = 0 THEN 0
  ELSE IF idx[from] # (from - 1) + N - Len(idx) THEN from
  ELSE Advanceable(idx, N, from - 1)

HasNextCombination(idx, N) == Advanceable(idx, N, Len(idx)) # 0

\* NextCombination without the reset of the positions to the right
NextCombinationNoReset(idx, N) ==
  LET x == Advanceable(idx, N, Len(idx))
  IN list([y \in 1..Len(idx) |-> IF y = x THEN idx[x] + 1 ELSE idx[y]])

\* the combination after idx: advance the rightmost advanceable position
\* and reset everything to its right
NextCombination(idx, N) ==
  LET x == Advanceable(idx, N, Len(idx))
  IN list([y \in 1..Len(idx) |->
        IF y < x THEN idx[y] ELSE idx[x] + 1 + (y - x)])

\* InitialPattern with one column too many: (n+1)*[0]
InitialPatternWide(w, ps, idx) ==
  LET subset == {ps[idx[x] + 1] : x \in 1..Len(idx)}
  IN list([i1 \in 1..Rows |->
       list([j1 \in 1..(w + 1) |->
          IF <<i1 - 1, j1 - 1>> \in subset THEN 1 ELSE 0])])

\* config = [n*[0] for _ in range(3)]; config[i][j] = 1 for (i,j) in subset,
\* subset being the pairs at the positions idx of ps = pairs(n)
InitialPattern(w, ps, idx) ==
  LET subset == {ps[idx[x] + 1] : x \in 1..Len(idx)}
  IN list([i1 \in 1..Rows |->
       list([j1 \in 1..w |-> IF <<i1 - 1, j1 - 1>> \in subset THEN 1 ELSE 0])])

\* The loop state st = [k, indices, visited, added, oscillators, examined]:
\* k and indices are the loop variables (the subset the next pass builds),
\* the set `visited` of the code is st.visited \cup st.added (the patterns
\* added since the last RunLoop step are kept apart and merged at its end),
\* examined counts the patterns handed to detect_cycle.
InVisited(config, st) == config \in st.added \/ config \in st.visited

\* SymmetricToVisited with the pruning test left out: nothing is skipped
NeverSymmetricToVisited(config, syms, st) == FALSE

\* any([pattern.apply_symmetry(symmetry) in visited
\*      for symmetry in rectangle_symmetries(3,n)]),
\* syms being rectangle_symmetries(3, n)
SymmetricToVisited(config, syms, st) ==
  \E x \in 1..Len(syms) : InVisited(apply_symmetry(config, syms[x]), st)

\* for i in range(first_rep): pattern = pattern.step()
RECURSIVE StepTimes(_, _)
StepTimes(config, count) ==
  IF count <= 0 THEN config
  ELSE Only({StepTimes(next, count - 1) : next \in {Step(config)}})

\* IsOscillator with fixed points let through: period >= 1
IsOscillatorOrStill(cyc) == cyc[2] >= 1

\* IsOscillator with period 2 left out: period > 2
IsOscillatorAbove2(cyc) == cyc[2] > 2

\* if period > 1, cyc being the pair detect_cycle returned
IsOscillator(cyc) == cyc[2] > 1

\* CycleMember advanced one step too far: range(first_rep + 1)
CycleMemberOneMore(cand, cyc) == StepTimes(cand, cyc[1] + 1)

\* CycleMember without the advance: the candidate itself
CycleMemberNotAdvanced(cand, cyc) == cand

\* the candidate advanced first_rep steps:
\* for i in range(first_rep): pattern = pattern.step()
CycleMember(cand, cyc) == StepTimes(cand, cyc[1])

\* the loop variables advanced to the next subset
\* (k > Rows*n: both loops are finished)
NextSubset(w, st) ==
  Only({IF HasNextCombination(cur.indices, Rows * w)
        THEN [cur EXCEPT !.indices = NextCombination(cur.indices, Rows * w)]
        ELSE [cur EXCEPT !.k = cur.k + 1,
                         !.indices = FirstCombination(cur.k + 1)] :
          cur \in {st}})

\* the pattern cand, not skipped, with cyc the pair detect_cycle returned
\* for it: visited.add(pattern), and for an oscillator the cycle member
\* added to oscillators and to visited
Classify(st, cand, cyc) ==
  IF IsOscillator(cyc)
  THEN [st EXCEPT !.added = st.added \cup {cand, CycleMember(cand, cyc)},
                  !.oscillators = st.oscillators \cup {CycleMember(cand, cyc)},
                  !.examined = st.examined + 1]
  ELSE [st EXCEPT !.added = st.added \cup {cand},
                  !.examined = st.examined + 1]

\* the body of the inner loop for the pattern cand: continue if it is
\* symmetric to a visited pattern, else detect_cycle and classify
Examine(syms, st, cand) ==
  IF SymmetricToVisited(cand, syms, st) THEN st
  ELSE Only({Classify(st, cand, cyc) : cyc \in {detect_cycle(cand)}})

\* one pass through the body of the inner loop for the subset st.indices,
\* the loop variables advanced
LoopBody(w, ps, syms, st) ==
  Only({NextSubset(w, Examine(syms, st, cand)) :
          cand \in {InitialPattern(w, ps, st.indices)}})

\* up to `count` consecutive passes through the loop body
RECURSIVE LoopBodies(_, _, _, _, _)
LoopBodies(w, ps, syms, st, count) ==
  IF count = 0 \/ st.k > Rows * w THEN st
  ELSE IF count = 1 THEN LoopBody(w, ps, syms, st)
  ELSE Only({LoopBodies(w, ps, syms, half, count - (count \div 2)) :
               half \in {LoopBodies(w, ps, syms, st, count \div 2)}})

\* the loop state after the next `count` passes, the added patterns merged
RunBatch(w, ps, syms, st, count) ==
  Only({[r EXCEPT !.visited = r.visited \cup r.added, !.added = {}] :
          r \in {LoopBodies(w, ps, syms, st, count)}})

\* find_oscillators(n): the set the loops leave in oscillators
find_oscillators(w) ==
  Only({RunBatch(w, ps, syms,
                 [k |-> 0, indices |-> FirstCombination(0), visited |-> {},
                  added |-> {}, oscillators |-> {}, examined |-> 0],
                 2 ^ (Rows * w)).oscillators :
          ps \in {pairs(w)}, syms \in {rectangle_symmetries(Rows, w, TRUE)}})

\* ------------------------------------- the loops in the reverse order
\* for k in reversed(range(len(pairs)+1)):
\*     for subset in reversed(list(combinations(pairs, k))):
\* the last combination of a size is (N-size, ..., N-1)
LastCombination(size, N) == list([x \in 1..size |-> N - size + x - 1])

\* the rightmost position x <= from (1-based) whose entry can go down by
\* one, 0 if there is none (idx is the first combination of its size)
RECURSIVE Retreatable(_, _)
Retreatable(idx, from) ==
  IF from = 0 THEN 0
  ELSE IF idx[from] - 1 > (IF from = 1 THEN -1 ELSE idx[from - 1]) THEN from
  ELSE Retreatable(idx, from - 1)

HasPrevCombination(idx) == Retreatable(idx, Len(idx)) # 0

\* PrevCombination without the positions to the right put back
PrevCombinationNoReset(idx, N) ==
  LET x == Retreatable(idx, Len(idx))
  IN list([y \in 1..Len(idx) |-> IF y = x THEN idx[x] - 1 ELSE idx[y]])

\* the combination before idx: lower the rightmost position that can go
\* down and put everything to its right as far right as it goes
PrevCombination(idx, N) ==
  LET x == Retreatable(idx, Len(idx))
  IN list([y \in 1..Len(idx) |->
        IF y < x THEN idx[y]
        ELSE IF y = x THEN idx[x] - 1
        ELSE N - Len(idx) + y - 1])

\* the loop variables taken back to the previous subset
\* (k < 0: both loops are finished)
PrevSubset(w, st) ==
  Only({IF HasPrevCombination(cur.indices)
        THEN [cur EXCEPT !.indices = PrevCombination(cur.indices, Rows * w)]
        ELSE [cur EXCEPT !.k = cur.k - 1,
                         !.indices = LastCombination(cur.k - 1, Rows * w)] :
          cur \in {st}})

\* the loop state r after the body ran on cand in the loop state st, the
\* configuration recorded in the field `generated`
Recorded(st, cand, r) ==
  [r EXCEPT !.generated = Append(@, [config |-> cand,
                                     handed |-> r.examined > st.examined])]

\* one pass through the body of the inner loop in the reverse order
LoopBodyReversed(w, ps, syms, st) ==
  Only({Only({PrevSubset(w, Recorded(st, cand, r)) :
                r \in {Examine(syms, st, cand)}}) :
          cand \in {InitialPattern(w, ps, st.indices)}})

\* up to `count` consecutive passes in the reverse order
RECURSIVE LoopBodiesReversed(_, _, _, _, _)
LoopBodiesReversed(w, ps, syms, st, count) ==
  IF count = 0 \/ st.k < 0 THEN st
  ELSE IF count = 1 THEN LoopBodyReversed(w, ps, syms, st)
  ELSE Only({LoopBodiesReversed(w, ps, syms, half, count - (count \div 2)) :
               half \in {LoopBodiesReversed(w, ps, syms, st, count \div 2)}})

\* the loop state after the next `count` passes in the reverse order, the
\* added patterns merged
RunBatchReversed(w, ps, syms, st, count) ==
  Only({[r EXCEPT !.visited = r.visited \cup r.added, !.added = {}] :
          r \in {LoopBodiesReversed(w, ps, syms, st, count)}})

\* ==================================================================
\* Specification SpecStep: step and apply_symmetry on every board of
\* 1..MaxH rows and 1..MaxW columns
\* ==================================================================
\* every binary H x W configuration, as life_pattern(config) stores it
AllGrids(H, W) == [1..H -> [1..W -> {0, 1}]]

Boards == UNION {AllGrids(H, W) : H \in 1..MaxH, W \in 1..MaxW}

CycleIdle ==
  /\ pc = "idle" /\ tortoise = << >> /\ hare = << >>
  /\ first_rep = 0 /\ period = 0

SearchIdle ==
  /\ n = 0 /\ k = 0 /\ indices = << >>
  /\ visited = {} /\ oscillators = {} /\ examined = 0
  /\ generated = << >>

InitStep ==
  /\ pattern \in Boards
  /\ prev = pattern
  /\ op = <<"new">>
  /\ CycleIdle
  /\ SearchIdle

\* pattern = pattern.step()
DoStep ==
  /\ pattern' = Step(pattern)
  /\ prev' = pattern
  /\ op' = <<"step">>
  /\ UNCHANGED <<pc, tortoise, hare, first_rep, period,
                 n, k, indices, visited, oscillators, examined,
                 generated>>

\* pattern = pattern.apply_symmetry(symmetry) for the x-th symmetry that
\* rectangle_symmetries(height, width, skip_id=False) yields
DoSymmetry(x) ==
  /\ x \in 1..Len(rectangle_symmetries(height(pattern), width(pattern), FALSE))
  /\ pattern' = apply_symmetry(pattern,
         rectangle_symmetries(height(pattern), width(pattern), FALSE)[x])
  /\ prev' = pattern
  /\ op' = <<"symmetry", x>>
  /\ UNCHANGED <<pc, tortoise, hare, first_rep, period,
                 n, k, indices, visited, oscillators, examined,
                 generated>>

NextStep == DoStep \/ \E x \in 1..8 : DoSymmetry(x)

SpecStep == InitStep /\ [][NextStep]_vars

\* ==================================================================
\* Specification SpecCycle: detect_cycle(pattern), one step per loop
\* iteration, on every board of 1..MaxH rows and 1..MaxW columns and on
\* the glider of the notebook in each of its orientations
\* ==================================================================
StepIdle == prev = pattern /\ op = <<"new">>

glider ==
  << <<0, 1, 0, 0, 0>>,
     <<0, 0, 1, 0, 0>>,
     <<1, 1, 1, 0, 0>>,
     <<0, 0, 0, 0, 0>>,
     <<0, 0, 0, 0, 0>> >>

\* the glider and its images under the symmetries of its board
GliderStarts ==
  {apply_symmetry(glider,
                  rectangle_symmetries(height(glider), width(glider), FALSE)[x]) :
     x \in 1..Len(rectangle_symmetries(height(glider), width(glider), FALSE))}

InitCycle ==
  /\ pattern \in Boards \cup GliderStarts
  /\ StepIdle
  /\ pc = "call" /\ tortoise = << >> /\ hare = << >>
  /\ first_rep = 0 /\ period = 0
  /\ SearchIdle

\* Call with the hare starting beside the tortoise
CallSameStart ==
  /\ pc = "call"
  /\ tortoise' = Step(pattern)
  /\ hare' = tortoise'
  /\ pc' = "phase1"
  /\ UNCHANGED <<first_rep, period>>

\* tortoise = pattern.step(); hare = tortoise.step()
Call ==
  /\ pc = "call"
  /\ tortoise' = Step(pattern)
  /\ hare' = Step(tortoise')
  /\ pc' = "phase1"
  /\ UNCHANGED <<first_rep, period>>

\* Phase1Loop with the hare advanced by one step only
Phase1LoopSlowHare ==
  /\ pc = "phase1" /\ tortoise # hare
  /\ tortoise' = Step(tortoise)
  /\ hare' = Step(hare)
  /\ UNCHANGED <<pc, first_rep, period>>

\* while tortoise != hare: tortoise = tortoise.step();
\*                         hare = hare.step().step()
Phase1Loop ==
  /\ pc = "phase1" /\ tortoise # hare
  /\ tortoise' = Step(tortoise)
  /\ \E once \in {Step(hare)} : hare' = Step(once)
  /\ UNCHANGED <<pc, first_rep, period>>

\* Phase1Exit with the counter started at 1
Phase1ExitOffByOne ==
  /\ pc = "phase1" /\ tortoise = hare
  /\ first_rep' = 1
  /\ tortoise' = pattern
  /\ pc' = "phase2"
  /\ UNCHANGED <<hare, period>>

\* loop 1 exits; first_rep = 0; tortoise = pattern.copy()
Phase1Exit ==
  /\ pc = "phase1" /\ tortoise = hare
  /\ first_rep' = 0
  /\ tortoise' = pattern
  /\ pc' = "phase2"
  /\ UNCHANGED <<hare, period>>

\* while tortoise != hare: both step once; first_rep += 1
Phase2Loop ==
  /\ pc = "phase2" /\ tortoise # hare
  /\ tortoise' = Step(tortoise)
  /\ hare' = Step(hare)
  /\ first_rep' = first_rep + 1
  /\ UNCHANGED <<pc, period>>

\* Phase2Exit with the period counted from 0
Phase2ExitPeriodZero ==
  /\ pc = "phase2" /\ tortoise = hare
  /\ period' = 0
  /\ hare' = Step(tortoise)
  /\ pc' = "phase3"
  /\ UNCHANGED <<tortoise, first_rep>>

\* loop 2 exits; period = 1; hare = tortoise.step()
Phase2Exit ==
  /\ pc = "phase2" /\ tortoise = hare
  /\ period' = 1
  /\ hare' = Step(tortoise)
  /\ pc' = "phase3"
  /\ UNCHANGED <<tortoise, first_rep>>

\* while tortoise != hare: hare = hare.step(); period += 1
Phase3Loop ==
  /\ pc = "phase3" /\ tortoise # hare
  /\ hare' = Step(hare)
  /\ period' = period + 1
  /\ UNCHANGED <<pc, tortoise, first_rep>>

\* loop 3 exits; return first_rep, period
Return ==
  /\ pc = "phase3" /\ tortoise = hare
  /\ pc' = "returned"
  /\ UNCHANGED <<tortoise, hare, first_rep, period>>

NextCycle ==
  /\ \/ Call
     \/ Phase1Loop \/ Phase1Exit
     \/ Phase2Loop \/ Phase2Exit
     \/ Phase3Loop \/ Return
  /\ UNCHANGED <<pattern, prev, op,
                 n, k, indices, visited, oscillators, examined,
                 generated>>

\* detect_cycle is straight-line sequential code: it always takes its
\* next step
SpecCycle == InitCycle /\ [][NextCycle]_vars /\ WF_vars(NextCycle)

\* ==================================================================
\* Specification SpecSearch: find_oscillators(n) for the widths 0..MaxN,
\* Batch passes through the loop body per step
\* ==================================================================
\* no life_pattern is being stepped and no detect_cycle call is traced:
\* the calls the search makes are evaluated inside its steps
NoPattern == pattern = << >> /\ StepIdle /\ tortoise = << >> /\ hare = << >>
             /\ first_rep = 0 /\ period = 0

\* pairs, visited = set(), oscillators = set(), the loops at their first
\* subset (k = 0, the empty subset)
Entry(w) ==
  /\ n = w
  /\ k = 0 /\ indices = FirstCombination(0)
  /\ visited = {} /\ oscillators = {} /\ examined = 0
  /\ generated = << >>
  /\ pc = "loop"
  /\ NoPattern

InitSearch == \E w \in 0..MaxN : Entry(w)

\* the next `count` passes through the loop body
RunLoop(count) ==
  /\ pc = "loop" /\ k <= Rows * n
  /\ \E ps \in {pairs(n)} :
     \E syms \in {rectangle_symmetries(Rows, n, TRUE)} :
     \E r \in {RunBatch(n, ps, syms,
                        [k |-> k, indices |-> indices, visited |-> visited,
                         added |-> {}, oscillators |-> oscillators,
                         examined |-> examined], count)} :
        /\ k' = r.k
        /\ indices' = r.indices
        /\ visited' = r.visited
        /\ oscillators' = r.oscillators
        /\ examined' = r.examined
  /\ UNCHANGED <<pattern, prev, op, pc, tortoise, hare, first_rep, period, n,
                 generated>>

\* both loops are finished: return oscillators
ReturnOscillators ==
  /\ pc = "loop" /\ k > Rows * n
  /\ pc' = "done"
  /\ UNCHANGED <<pattern, prev, op, tortoise, hare, first_rep, period,
                 n, k, indices, visited, oscillators, examined,
                 generated>>

NextSearch == RunLoop(Batch) \/ ReturnOscillators

SpecSearch == InitSearch /\ [][NextSearch]_vars

\* find_oscillators is sequential code: it always takes its next step
SpecSearchFair == SpecSearch /\ WF_vars(NextSearch)

\* ==================================================================
\* Specification SpecPass: find_oscillators(n) for n in 0..MaxPassN, one
\* pass through the body of the inner loop per step, the configurations
\* built recorded in `generated`
\* ==================================================================
InitPass == \E w \in 0..MaxPassN : Entry(w)

\* one pass through the loop body: the configuration of the subset
\* `indices` is built and either skipped or handed to detect_cycle
Pass ==
  /\ pc = "loop" /\ k <= Rows * n
  /\ \E ps \in {pairs(n)} :
     \E syms \in {rectangle_symmetries(Rows, n, TRUE)} :
     \E cand \in {InitialPattern(n, ps, indices)} :
     \E r \in {RunBatch(n, ps, syms,
                        [k |-> k, indices |-> indices, visited |-> visited,
                         added |-> {}, oscillators |-> oscillators,
                         examined |-> examined], 1)} :
        /\ k' = r.k
        /\ indices' = r.indices
        /\ visited' = r.visited
        /\ oscillators' = r.oscillators
        /\ examined' = r.examined
        /\ generated' = Append(generated,
                               [config |-> cand,
                                handed |-> r.examined > examined])
  /\ UNCHANGED <<pattern, prev, op, pc, tortoise, hare, first_rep, period, n>>

NextPass == Pass \/ ReturnOscillators

\* find_oscillators is sequential code: it always takes its next step
SpecPass == InitPass /\ [][NextPass]_vars /\ WF_vars(NextPass)

\* ==================================================================
\* Specification SpecOrders: the loop of find_oscillators(n) for n in
\* 0..MaxN over the order of the code and over the reverse of that order,
\* OrdersBatch passes per step
\* ==================================================================
EntryReversed(w) ==
  /\ n = w
  /\ k = Rows * w /\ indices = LastCombination(Rows * w, Rows * w)
  /\ visited = {} /\ oscillators = {} /\ examined = 0
  /\ generated = << >>
  /\ pc = "loop_reversed"
  /\ NoPattern

InitOrders == \E w \in 0..MaxN : Entry(w) \/ EntryReversed(w)

\* the next `count` passes through the loop body in the reverse order,
\* the configurations built recorded in `generated`
RunLoopReversed(count) ==
  /\ pc = "loop_reversed" /\ k >= 0
  /\ \E ps \in {pairs(n)} :
     \E syms \in {rectangle_symmetries(Rows, n, TRUE)} :
     \E r \in {RunBatchReversed(n, ps, syms,
                        [k |-> k, indices |-> indices, visited |-> visited,
                         added |-> {}, oscillators |-> oscillators,
                         examined |-> examined, generated |-> generated],
                        count)} :
        /\ k' = r.k
        /\ indices' = r.indices
        /\ visited' = r.visited
        /\ oscillators' = r.oscillators
        /\ examined' = r.examined
        /\ generated' = r.generated
  /\ UNCHANGED <<pattern, prev, op, pc, tortoise, hare, first_rep, period, n>>

\* both loops are finished: return oscillators
ReturnReversed ==
  /\ pc = "loop_reversed" /\ k < 0
  /\ pc' = "done_reversed"
  /\ UNCHANGED <<pattern, prev, op, tortoise, hare, first_rep, period,
                 n, k, indices, visited, oscillators, examined,
                 generated>>

NextOrders ==
  \/ RunLoop(OrdersBatch) \/ ReturnOscillators
  \/ RunLoopReversed(OrdersBatch) \/ ReturnReversed

SpecOrders == InitOrders /\ [][NextOrders]_vars

\* ==================================================================
\* Specification SpecWide: find_oscillators(n) for the widths the
\* notebook reports no oscillator for, WideBatch passes per step
\* ==================================================================
\* range(1,5) without 4, then n = 5 and n = 6
EmptyWidths == {1, 2, 3, 5, 6}
\* loop iterations of find_oscillators taken by one step
WideBatch == 1024

InitWide == \E w \in EmptyWidths : Entry(w)

NextWide == RunLoop(WideBatch) \/ ReturnOscillators

SpecWide == InitWide /\ [][NextWide]_vars

\* ==================================================================
\* Specification SpecSeven: the first passes of find_oscillators(7), the
\* subsets of at most MaxK cells, SevenBatch passes per step
\* ==================================================================
\* the widest board the notebook searches: n = 7
SevenWidth == 7
\* the subsets enumerated have at most MaxK cells
MaxK == 6
\* loop iterations of find_oscillators(7) taken by one step
SevenBatch == 768

InitSeven == Entry(SevenWidth)

\* the next SevenBatch passes, while the subsets have at most MaxK cells
RunLoopSeven == k <= MaxK /\ RunLoop(SevenBatch)

NextSeven == RunLoopSeven

SpecSeven == InitSeven /\ [][NextSeven]_vars

\* ==================================================================
\* Specification SpecTruth: Step iterated from every configuration of
\* the 3 x n boards the notebook searches up to n = 6
\* ==================================================================
\* the widths of range(1,5), n = 5 and n = 6
TruthWidths == {1, 2, 3, 4, 5, 6}

InitTruth ==
  /\ pattern \in UNION {AllGrids(Rows, w) : w \in TruthWidths}
  /\ StepIdle
  /\ CycleIdle
  /\ SearchIdle

\* pattern = pattern.step(), repeated: the evolution of a configuration
\* (no single step is traced: prev follows pattern)
Evolve ==
  /\ pattern' = Step(pattern)
  /\ prev' = pattern'
  /\ op' = <<"evolve">>
  /\ UNCHANGED <<pc, tortoise, hare, first_rep, period,
                 n, k, indices, visited, oscillators, examined,
                 generated>>

NextTruth == Evolve

\* the evolution of a pattern never stops: step can always be applied again
SpecTruth == InitTruth /\ [][NextTruth]_vars /\ WF_vars(NextTruth)

\* ==================================================================
\* Specification SpecNew: life_pattern(config) called with every matrix
\* of at most MaxRows rows of at most MaxCols values 0..MaxValue
\* ==================================================================
MaxRows == 2
MaxCols == 2
MaxValue == 2

\* tuple([tuple(row) for row in rect])
tuplefy_rectangle(rect) ==
  list([x \in 1..Len(rect) |-> list([y \in 1..Len(rect[x]) |-> rect[x][y]])])

\* the arguments: lists of rows, the rows of any lengths
Matrices ==
  UNION {[1..r -> UNION {[1..c -> 0..MaxValue] : c \in 0..MaxCols}] :
           r \in 0..MaxRows}

\* prev holds the argument config of the call, no object exists yet
InitNew ==
  /\ prev \in Matrices
  /\ pattern = << >>
  /\ op = <<"call">>
  /\ CycleIdle
  /\ SearchIdle

\* __init__: self._config = tuplefy_rectangle(config);
\* self._height = len(config); self._width = len(config[0])
New ==
  /\ op = <<"call">>
  /\ Len(prev) > 0
  /\ pattern' = tuplefy_rectangle(prev)
  /\ op' = <<"new">>
  /\ UNCHANGED <<prev, pc, tortoise, hare, first_rep, period,
                 n, k, indices, visited, oscillators, examined,
                 generated>>

\* __init__ with no row: len(config[0]) raises IndexError
NewNoRow ==
  /\ op = <<"call">>
  /\ Len(prev) = 0
  /\ op' = <<"raise", "IndexError">>
  /\ UNCHANGED <<pattern, prev, pc, tortoise, hare, first_rep, period,
                 n, k, indices, visited, oscillators, examined,
                 generated>>

NextNew == New \/ NewNoRow

SpecNew == InitNew /\ [][NextNew]_vars

\* ------------------------------------------------------------------
\* Claims checked under SpecStep
\* ------------------------------------------------------------------
\* the 8 compass offsets (di, dj)
Offsets == {d \in (-1..1) \X (-1..1) : d # <<0, 0>>}

\* number of offsets whose wrapped target cell is alive in config; an
\* offset counts once whatever cell it wraps to
LiveOffsets(config, i, j) ==
  Cardinality({d \in Offsets :
     config[((i + d[1]) % height(config)) + 1]
           [((j + d[2]) % width(config)) + 1] = 1})

LifeRule(config, i, j) ==
  IF LiveOffsets(config, i, j) = 3
     \/ (LiveOffsets(config, i, j) = 2 /\ config[i + 1][j + 1] = 1)
  THEN 1 ELSE 0

\* C1: step returns a binary board of the same H x W in which cell (i,j)
\* is 1 iff s = 3, or s = 2 and the cell was 1, s being the number of the
\* 8 offsets (di,dj) whose cell ((i+di) mod H, (j+dj) mod W) was 1, each
\* offset counted once also when offsets wrap to the same cell.
C1_StepRule ==
  op = <<"step">> =>
    /\ height(pattern) = height(prev)
    /\ \A i \in 0..(height(prev) - 1) :
         /\ Len(pattern[i + 1]) = width(prev)
         /\ \A j \in 0..(width(prev) - 1) :
              pattern[i + 1][j + 1] = LifeRule(prev, i, j)

\* C1 witness: on a 3x4 board cell (0,0) is born because the live cell
\* (2,3), reached by the diagonal wrap, is its third live neighbour
C1_Witness ==
  /\ op = <<"step">>
  /\ height(prev) = 3 /\ width(prev) = 4
  /\ prev[3][4] = 1 /\ prev[1][1] = 0
  /\ LiveOffsets(prev, 0, 0) = 3
  /\ pattern[1][1] = 1

\* C4: step commutes with every remapping rectangle_symmetries(H, W)
\* yields: s.apply_symmetry(sigma).step() = s.step().apply_symmetry(sigma)
C4_StepCommutes ==
  LET syms == rectangle_symmetries(height(pattern), width(pattern), TRUE)
  IN \A x \in 1..Len(syms) :
       Step(apply_symmetry(pattern, syms[x]))
         = apply_symmetry(Step(pattern), syms[x])

\* C4 witness: a square 3x3 board that came out of the transposition (the
\* 5th of the 8 symmetries), changed by it, and that step changes again
C4_Witness ==
  /\ op = <<"symmetry", 5>>
  /\ height(pattern) = 3 /\ width(pattern) = 3
  /\ Len(rectangle_symmetries(3, 3, TRUE)) = 7
  /\ pattern # prev
  /\ Step(pattern) # pattern
  /\ \E i \in 1..3, j \in 1..3 : Step(pattern)[i][j] = 1

\* the h x w rectangle of the images F(i, j) of the coordinates (i, j)
Remapping(F(_, _), h, w) ==
  list([i1 \in 1..h |-> list([j1 \in 1..w |-> F(i1 - 1, j1 - 1)])])

\* the coordinates a remapping reads, one per position
ImageOf(rect) == {rect[i1][j1] : i1 \in 1..Len(rect), j1 \in 1..Len(rect[1])}

\* C12: rectangle_symmetries(h, w, skip_id=False) yields the symmetry
\* group of the h x w rectangle as pairwise distinct coordinate
\* bijections: identity, horizontal flip, vertical flip, 180 degree
\* rotation, and for h = w the transpose followed by the same four; with
\* skip_id=True the same sequence without the identity, 3 or 7
\* remappings none of which is the identity
C12_FullGroup ==
  LET h == height(pattern)
      w == width(pattern)
      all == rectangle_symmetries(h, w, FALSE)
      rest == rectangle_symmetries(h, w, TRUE)
      Id(i, j) == <<i, j>>
      HFlip(i, j) == <<i, w - 1 - j>>
      VFlip(i, j) == <<h - 1 - i, j>>
      Rot(i, j) == <<h - 1 - i, w - 1 - j>>
      Tr(i, j) == <<j, i>>
      TrH(i, j) == <<w - 1 - j, i>>
      TrV(i, j) == <<j, h - 1 - i>>
      TrRot(i, j) == <<w - 1 - j, h - 1 - i>>
  IN /\ Len(all) = IF h # w THEN 4 ELSE 8
     /\ all[1] = Remapping(Id, h, w)
     /\ all[2] = Remapping(HFlip, h, w)
     /\ all[3] = Remapping(VFlip, h, w)
     /\ all[4] = Remapping(Rot, h, w)
     /\ h = w => /\ all[5] = Remapping(Tr, h, w)
                 /\ all[6] = Remapping(TrH, h, w)
                 /\ all[7] = Remapping(TrV, h, w)
                 /\ all[8] = Remapping(TrRot, h, w)
     /\ \A x \in 1..Len(all) :
          ImageOf(all[x]) = (0..(h - 1)) \X (0..(w - 1))
     /\ \A x \in 1..Len(all) : \A y \in 1..Len(all) :
          x # y => all[x] # all[y]
     /\ rest = Tail(all)
     /\ Len(rest) \in {3, 7}
     /\ \A x \in 1..Len(rest) : rest[x] # Remapping(Id, h, w)

\* ------------------------------------------------------------------
\* Claims checked under SpecCycle
\* ------------------------------------------------------------------
\* the naive approach of the notebook: record the whole history
\* start, step(start), ... up to the first pattern that repeats
RECURSIVE History(_)
History(h) ==
  IF \E x \in 1..Len(h) : h[x] = Step(h[Len(h)]) THEN h
  ELSE History(Append(h, Step(h[Len(h)])))

\* position (0-based) in the history of config at which it first repeats:
\* the length of the transient part
TransientLength(config) ==
  LET h == History(<<config>>)
  IN (CHOOSE x \in 1..Len(h) : h[x] = Step(h[Len(h)])) - 1

\* the length of the periodic part
EventualPeriod(config) ==
  Len(History(<<config>>)) - TransientLength(config)

\* config lies on the cycle its evolution ends in
OnCycle(config) == TransientLength(config) = 0

\* C2: detect_cycle terminates (all three loops exit) and returns (t, p)
\* with t >= 0, p >= 1 and Step^(t+p)(s) = Step^t(s)
C2_Terminates ==
  /\ <>(pc = "returned")
  /\ [](pc = "returned" =>
          /\ first_rep >= 0
          /\ period >= 1
          /\ StepTimes(pattern, first_rep + period)
               = StepTimes(pattern, first_rep))

\* C2 witness: a run that has returned a transient and a period of 2
C2_Witness ==
  /\ pc = "returned"
  /\ first_rep >= 1
  /\ period = 2

\* C3: the returned pair is exact: first_rep is the least t with
\* Step^t(s) on the eventual cycle, period the least p >= 1 with
\* Step^(first_rep+p)(s) = Step^first_rep(s); first_rep = 0 iff s is
\* on a cycle
C3_Exact ==
  pc = "returned" =>
    /\ first_rep = TransientLength(pattern)
    /\ period = EventualPeriod(pattern)
    /\ \A t \in 0..(first_rep - 1) : ~OnCycle(StepTimes(pattern, t))
    /\ OnCycle(StepTimes(pattern, first_rep))
    /\ \A p \in 1..(period - 1) :
         StepTimes(pattern, first_rep + p) # StepTimes(pattern, first_rep)
    /\ StepTimes(pattern, first_rep + period) = StepTimes(pattern, first_rep)
    /\ (first_rep = 0 <=> OnCycle(pattern))

\* C3 witness: a returned run whose start is not on its cycle, the cycle
\* being an oscillator
C3_Witness ==
  /\ pc = "returned"
  /\ first_rep = 1
  /\ period = 2
  /\ ~OnCycle(pattern)
  /\ OnCycle(Step(pattern))
  /\ Step(Step(Step(pattern))) = Step(pattern)

\* ------------------------------------------------------------------
\* Claims checked under SpecSearch
\* ------------------------------------------------------------------
\* config is a Rows x w board lying on a cycle of period >= 2
OscillatorState(config, w) ==
  /\ height(config) = Rows
  /\ \A i \in 1..Rows : Len(config[i]) = w
  /\ OnCycle(config)
  /\ EventualPeriod(config) >= 2
  /\ Step(config) # config

\* C5: at every point of the search and in the returned set, every state
\* of the oscillator set lies on a cycle of period >= 2 of the 3 x n board
\* (detect_cycle on it gives first_rep = 0 and period >= 2): no fixed
\* point and no transient state is ever in it
C5_Sound ==
  \A o \in oscillators :
     /\ OscillatorState(o, n)
     /\ o \in visited
     /\ detect_cycle(o)[1] = 0
     /\ detect_cycle(o)[2] >= 2

\* C5 witness: the search is still running and already holds an
\* oscillator state that is not one of the candidates enumerated so far
\* (it has more live cells than the subsets being enumerated)
C5_Witness ==
  /\ pc = "loop" /\ k <= Rows * n
  /\ \E o \in oscillators :
       /\ Step(o) # o
       /\ Cardinality({c \in (1..Rows) \X (1..n) : o[c[1]][c[2]] = 1}) > k

\* the symmetric images of a set of Rows x w boards, the boards themselves
\* included
SymmetricImages(states, w) ==
  states \cup
  {apply_symmetry(o, rectangle_symmetries(Rows, w, TRUE)[x]) :
     o \in states, x \in 1..Len(rectangle_symmetries(Rows, w, TRUE))}

\* C6: every 3 x n configuration on a cycle of period >= 2 is in the
\* returned set or is the image of a returned state under a symmetry of
\* the 3 x n rectangle: the symmetric images of the returned states are
\* all the oscillator states
C6_Complete ==
  pc = "done" =>
    LET images == SymmetricImages(oscillators, n)
    IN /\ \A c \in AllGrids(Rows, n) : OscillatorState(c, n) => c \in images
       /\ images = {c \in AllGrids(Rows, n) : OscillatorState(c, n)}

\* C6 witness: a finished search whose board has an oscillator state that
\* was pruned and is only the symmetric image of a returned state
C6_Witness ==
  /\ pc = "done"
  /\ \E c \in AllGrids(Rows, n) :
       /\ OscillatorState(c, n)
       /\ c \notin oscillators
       /\ c \in SymmetricImages(oscillators, n)

\* o for a live cell, . for a dead one
Row_oo == <<0, 1, 1, 0>>
Rowoo__ == <<1, 1, 0, 0>>
Rowo__o == <<1, 0, 0, 1>>
Row__oo == <<0, 0, 1, 1>>

\* the three patterns .oo./.oo./.oo., oo../oo../oo.., o..o/o..o/o..o
ThreePatterns ==
  { <<Row_oo, Row_oo, Row_oo>>,
    <<Rowoo__, Rowoo__, Rowoo__>>,
    <<Rowo__o, Rowo__o, Rowo__o>> }

\* C8: find_oscillators(4) returns exactly the three patterns
\* .oo./.oo./.oo., oo../oo../oo.. and o..o/o..o/o..o, each on a cycle of
\* period 2
C8_Width4 ==
  (pc = "done" /\ n = 4) =>
    /\ oscillators = ThreePatterns
    /\ Cardinality(oscillators) = 3
    /\ \A o \in oscillators :
         /\ Step(o) # o
         /\ Step(Step(o)) = o
         /\ detect_cycle(o) = <<0, 2>>

\* C8 witness: find_oscillators(4) has returned, after handing 1117
\* candidates to detect_cycle
C8_Witness ==
  /\ pc = "done" /\ n = 4
  /\ examined = 1117
  /\ Cardinality(oscillators) = 3

\* ------------------------------------------------------------------
\* Claims checked under SpecSeven
\* ------------------------------------------------------------------
\* C7: the oscillator set is symmetry-reduced: no two distinct states of
\* it are images of one another under a symmetry of the 3 x n rectangle.
\* The set only grows, so a pair found during the search is in the
\* returned set.
C7_SymmetryReduced ==
  \A a \in oscillators : \A b \in oscillators :
     a # b => b \notin SymmetricImages({a}, n)

\* the candidate the next pass of the loops builds
NextCandidate == InitialPattern(n, pairs(n), indices)

\* C14: find_oscillators(n) runs to completion for every n >= 0, and every
\* life_pattern it constructs (the candidates, their symmetric images,
\* their successors, the states it stores) is a binary 3 x n matrix;
\* find_oscillators(0) examines the single empty configuration and
\* returns the empty set
C14_Completes ==
  /\ <>(pc = "done")
  /\ [](\A c \in visited \cup oscillators : c \in AllGrids(Rows, n))
  /\ []((pc = "loop" /\ k <= Rows * n) =>
          /\ NextCandidate \in AllGrids(Rows, n)
          /\ Step(NextCandidate) \in AllGrids(Rows, n)
          /\ \A x \in 1..Len(rectangle_symmetries(Rows, n, TRUE)) :
               apply_symmetry(NextCandidate,
                              rectangle_symmetries(Rows, n, TRUE)[x])
                 \in AllGrids(Rows, n))
  /\ []((pc = "done" /\ n = 0) =>
          /\ oscillators = {}
          /\ visited = {<< << >>, << >>, << >> >>}
          /\ examined = 1)

\* C14 witness: find_oscillators(0) has returned
C14_Witness ==
  /\ pc = "done" /\ n = 0
  /\ k = 1
  /\ examined = 1
  /\ oscillators = {}

\* ------------------------------------------------------------------
\* Claims checked under SpecWide
\* ------------------------------------------------------------------
\* C9: find_oscillators(n) returns the empty set for each n in
\* {1, 2, 3, 5, 6}
C9_Empty ==
  pc = "done" => n \in EmptyWidths /\ oscillators = {}

\* C9 witness: find_oscillators(5) has returned, after handing 8640
\* candidates to detect_cycle
C9_Witness ==
  /\ pc = "done" /\ n = 5
  /\ examined = 8640
  /\ Cardinality(visited) = 8640
  /\ oscillators = {}

\* ------------------------------------------------------------------
\* Claims checked under SpecTruth
\* ------------------------------------------------------------------
\* the three patterns returned for n = 4 and ..oo/..oo/..oo
FourOscillators == ThreePatterns \cup { <<Row__oo, Row__oo, Row__oo>> }

\* C10: among all configurations of the 3 x n board, n in 1..6, the ones
\* on a cycle of period >= 2 are exactly the four 3 x 4 states (none for
\* n in {1, 2, 3, 5, 6}): every evolution ends in a fixed point or in one
\* of the four states, and each of the four is on a cycle of period 2
C10_GroundTruth ==
  /\ <>[](Step(pattern) = pattern \/ pattern \in FourOscillators)
  /\ [](pattern \in FourOscillators =>
          /\ width(pattern) = 4
          /\ Step(pattern) # pattern
          /\ Step(pattern) \in FourOscillators
          /\ Step(Step(pattern)) = pattern)
  /\ Cardinality(FourOscillators) = 4

\* C10 witness: an evolution on the 3 x 4 board has entered the fourth
\* oscillator state, whose successor is the returned state oo../oo../oo..
C10_Witness ==
  /\ op = <<"evolve">>
  /\ pattern = <<Row__oo, Row__oo, Row__oo>>
  /\ Step(pattern) = <<Rowoo__, Rowoo__, Rowoo__>>
  /\ Step(pattern) \in ThreePatterns

\* ------------------------------------------------------------------
\* Claims checked under SpecNew
\* ------------------------------------------------------------------
\* a matrix of rows of one length holding only 0 and 1
ValidConfiguration(config) ==
  /\ \A x \in 1..Len(config) : Len(config[x]) = Len(config[1])
  /\ \A x \in 1..Len(config) : \A y \in 1..Len(config[x]) :
       config[x][y] \in {0, 1}

\* C13: constructing a life_pattern from a matrix whose rows have
\* inconsistent lengths, or that holds a value outside {0, 1}, fails with
\* InvalidConfiguration and produces no object
C13_Rejects ==
  (op # <<"call">> /\ ~ValidConfiguration(prev)) =>
     /\ op = <<"raise", "InvalidConfiguration">>
     /\ pattern = << >>

\* ------------------------------------------------------------------
\* The glider, checked under SpecCycle
\* ------------------------------------------------------------------
\* the period the notebook reports for the glider
GliderPeriod == 20

\* C15: detect_cycle(glider) returns first_rep = 0 and period = 20: the
\* glider recurs after exactly 20 steps and after no smaller positive
\* number of steps
C15_Glider ==
  (pc = "returned" /\ pattern = glider) =>
     /\ first_rep = 0
     /\ period = GliderPeriod
     /\ StepTimes(glider, GliderPeriod) = glider
     /\ \A q \in 1..(GliderPeriod - 1) : StepTimes(glider, q) # glider

\* C15 witness: detect_cycle(glider) has returned, the hare having gone
\* once round the cycle in phase 3
C15_Witness ==
  /\ pc = "returned" /\ pattern = glider
  /\ tortoise = glider /\ hare = glider
  /\ period > 1

\* ------------------------------------------------------------------
\* The meeting phase, checked under SpecCycle
\* ------------------------------------------------------------------
\* C16 as stated: the meeting phase starts with the slow and the fast
\* pointer both at Step(start), then advances slow by one step and fast
\* by two steps per iteration until slow = fast
C16_SameStart ==
  [][/\ (pc = "call" /\ pc' = "phase1") =>
           tortoise' = Step(pattern) /\ hare' = Step(pattern)
     /\ (pc = "phase1" /\ pc' = "phase1") =>
           /\ tortoise # hare
           /\ tortoise' = Step(tortoise)
           /\ hare' = Step(Step(hare))
     /\ (pc = "phase1" /\ pc' # "phase1") =>
           tortoise = hare /\ pc' = "phase2"]_vars

\* C16 amended: the meeting phase starts with the slow pointer at
\* Step(start) and the fast pointer at Step(Step(start)); each iteration
\* advances slow by one step and fast by two steps, and the phase ends
\* when slow = fast
C16_Meeting ==
  [][/\ (pc = "call" /\ pc' = "phase1") =>
           tortoise' = Step(pattern) /\ hare' = Step(Step(pattern))
     /\ (pc = "phase1" /\ pc' = "phase1") =>
           /\ tortoise # hare
           /\ tortoise' = Step(tortoise)
           /\ hare' = Step(Step(hare))
     /\ (pc = "phase1" /\ pc' # "phase1") =>
           tortoise = hare /\ pc' = "phase2"]_vars

\* C16 witness: the pointers started apart and have met after at least
\* one iteration of the meeting phase
C16_Witness ==
  /\ pc = "phase1" /\ tortoise = hare
  /\ Step(pattern) # Step(Step(pattern))
  /\ tortoise # Step(pattern)

\* ------------------------------------------------------------------
\* Claims checked under SpecPass
\* ------------------------------------------------------------------
\* the configurations handed to detect_cycle so far
Handed ==
  {generated[x].config :
     x \in {y \in 1..Len(generated) : generated[y].handed}}

\* C17: when find_oscillators(n) returns, no two distinct configurations
\* that were handed to detect_cycle are images of one another under a
\* symmetry of the 3 x n rectangle; and a pass skips its configuration
\* exactly when one of the remappings of rectangle_symmetries(3, n) maps
\* it to a pattern that is in visited at that moment
C17_OnePerOrbit ==
  /\ [](pc = "done" =>
          \A c1 \in Handed : \A c2 \in Handed :
             c1 # c2 => c2 \notin SymmetricImages({c1}, n))
  /\ [][(pc = "loop" /\ k <= Rows * n) =>
          (~generated'[Len(generated')].handed <=>
             \E x \in 1..Len(rectangle_symmetries(Rows, n, TRUE)) :
                apply_symmetry(generated'[Len(generated')].config,
                               rectangle_symmetries(Rows, n, TRUE)[x])
                  \in visited)]_vars

\* C17 witness: find_oscillators(2) has returned, 24 of its 64
\* configurations handed to detect_cycle and the other 40 skipped
C17_Witness ==
  /\ pc = "done" /\ n = 2
  /\ Len(generated) = 64
  /\ Cardinality(Handed) = 24
  /\ \E x \in 1..Len(generated) : ~generated[x].handed

\* the number of live cells of a configuration
LiveCells(config) ==
  Cardinality({<<i1, j1>> \in (1..Len(config)) \X (1..Len(config[1])) :
                 config[i1][j1] = 1})

\* C18: the loops of find_oscillators(n) come to their end, having built
\* each of the 2^(3n) binary 3 x n configurations exactly once, in
\* nondecreasing order of the number of live cells, the all-dead board
\* first and the all-live board last
C18_Exhaustive ==
  /\ <>(pc = "done")
  /\ [](pc = "done" =>
          /\ Len(generated) = 2 ^ (Rows * n)
          /\ {generated[x].config : x \in 1..Len(generated)}
               = AllGrids(Rows, n)
          /\ LiveCells(generated[Len(generated)].config) = Rows * n)
  /\ [](\A x \in 1..Len(generated) : \A y \in 1..Len(generated) :
          x # y => generated[x].config # generated[y].config)
  /\ [](\A x \in 1..(Len(generated) - 1) :
          LiveCells(generated[x].config) <= LiveCells(generated[x + 1].config))
  /\ [](Len(generated) >= 1 => LiveCells(generated[1].config) = 0)

\* C18 witness: find_oscillators(3) has returned, its loops having built
\* 512 configurations, the last with all 9 cells live
C18_Witness ==
  /\ pc = "done" /\ n = 3
  /\ Len(generated) = 512
  /\ LiveCells(generated[512].config) = 9

\* ------------------------------------------------------------------
\* Claims checked under SpecOrders
\* ------------------------------------------------------------------
\* the reverse order is exhaustive and duplicate-free: the loops have
\* built each of the 2^(3n) configurations once
ReversedExhaustive ==
  /\ Len(generated) = 2 ^ (Rows * n)
  /\ {generated[x].config : x \in 1..Len(generated)} = AllGrids(Rows, n)

\* C19 as stated: the loop run over the reverse of the order of the code
\* returns the same set as find_oscillators(n)
C19_SameSet ==
  pc = "done_reversed" => oscillators = find_oscillators(n)

\* C19 amended: the loop run over the order of the code and over its
\* reverse, an exhaustive duplicate-free order, returns sets with the same
\* images under the symmetries of the 3 x n rectangle
C19_SameImages ==
  /\ pc = "done" => oscillators = find_oscillators(n)
  /\ pc = "done_reversed" =>
       /\ ReversedExhaustive
       /\ SymmetricImages(oscillators, n)
            = SymmetricImages(find_oscillators(n), n)

\* C19 witness: the loop over the reverse order has returned for n = 4,
\* with a set that is not the set of find_oscillators(4)
C19_Witness ==
  /\ pc = "done_reversed" /\ n = 4
  /\ Len(generated) = 4096
  /\ oscillators # ThreePatterns
  /\ Cardinality(oscillators) = 3

====
